---- MODULE Spec2Model ----
(***************************************************************************)
(* PantiViewer front end: the push transport (useWebSocket), the pending   *)
(* push-event queue (AppContent) and the paginated image feed               *)
(* (useImageFetching / ImageProvider / ImageGrid).                          *)
(*                                                                         *)
(* The transport is the revision of useWebSocket with the pong watchdog    *)
(* and the liveness listeners (src/frontend/src/hooks/useGlobalHotkeys.js, *)
(* lines 159-296).  Every handler of the hook is one action; the handlers  *)
(* themselves are operators on the record of the hook's refs and state, so *)
(* that a handler which calls another (checkAndReconnect -> connect) is    *)
(* the composition of the two.                                             *)
(*                                                                         *)
(* Platform behaviour the handlers rely on (WHATWG WebSocket):             *)
(*   - close() on a CONNECTING socket fails the connection: the socket is  *)
(*     CLOSING, never opens, and its close event is preceded by an error   *)
(*     event; close() on an OPEN socket makes it CLOSING; close() on a     *)
(*     CLOSING or CLOSED socket does nothing;                              *)
(*   - a socket's error event and close event are dispatched in one task,  *)
(*     error first, with readyState already CLOSED;                        *)
(*   - message events are dispatched only while the socket is OPEN;        *)
(*   - clearTimeout / clearInterval of a timer that already fired or was   *)
(*     cleared does nothing; a ref keeps the id of the last timer set.     *)
(***************************************************************************)
EXTENDS Integers, Sequences, FiniteSets, TLC

\* ---------------------------------------------------------------- bounds
\* sockets one session may create
MaxSockets == 3
\* push events that may wait in the queue before the consumer takes them
MaxPending == 1
\* item ids carried by push events
MaxPushId == 2
\* item ids the server may return
MaxId == 2
\* revisions of one item the server may return
MaxRev == 0
\* imagesPerPage (settings.thumb_num)
PageSize == 1
\* fetches that may be awaiting their response at once
MaxInFlight == 2
\* times one removal event may be delivered
MaxDeliveries == 3
\* push events the grid may find in the queue at once
MaxBatch == 2

\* ------------------------------------------------------ program constants
PING_INTERVAL_MS == 20000
PONG_TIMEOUT_MS == 5000
RECONNECT_DELAY_MS == 3000

VARIABLES
  socks,             \* every WebSocket the session created; ws.current is the last
  isConnected,       \* useState(false)
  pingInterval,      \* timers started through the ref pingInterval
  pongTimeout,       \* timers started through the ref pongTimeout
  reconnectTimeout,  \* timers started through the ref reconnectTimeout
  tornDown,          \* the effect's cleanup has run
  queue,             \* AppContent's webSocketMessage array
  images,            \* useImageFetching: useState([])
  captured,          \* the images array the current fetchImages closure holds
  lastId,            \* cursor: id of the last item of the last response (0: null)
  hasMore,
  isFetchingMore,
  imagesLoading,
  imagesError,       \* an error message is set
  inflight,          \* fetchImages calls awaiting fetchImagesApi
  selectedImages,    \* AppContent: useState(new Set())
  isSelectMode,      \* AppContent: useState(false)
  isAuthenticated,   \* useAuth(): a user is signed in
  loading,           \* FolderTree: useState(true), FALSE while no folder tree is mounted
  rendered,          \* the webSocketMessage array of the grid's last render, while its
                     \* effect has yet to run
  hist,              \* how the last completed fetch ended, and what followed; blocked:
                     \* a page fetch failed, and no query change or refresh since (history)
  ev                 \* the handler that ran last (history)

tvars == <<socks, isConnected, pingInterval, pongTimeout, reconnectTimeout, tornDown>>
fvars == <<images, captured, lastId, hasMore, isFetchingMore, imagesLoading, imagesError, inflight,
          hist, isAuthenticated, loading, rendered>>
svars == <<selectedImages, isSelectMode>>
vars == <<socks, isConnected, pingInterval, pongTimeout, reconnectTimeout, tornDown, queue,
          images, captured, lastId, hasMore, isFetchingMore, imagesLoading, imagesError,
          inflight, selectedImages, isSelectMode, isAuthenticated, loading, rendered, hist, ev>>

\* ------------------------------------------------------------------ timers
\* A ref and the timers started through it: ref = the timer whose id the ref
\* holds is still armed; orphans = armed timers whose id the ref lost; delay =
\* the delay of the last timer set.
NoTimer == [ref |-> FALSE, orphans |-> 0, delay |-> 0]

SetTimer(t, d) == [ref |-> TRUE, orphans |-> t.orphans + (IF t.ref THEN 1 ELSE 0), delay |-> d]

ClearTimer(t) == [t EXCEPT !.ref = FALSE]

Armed(t) == t.ref \/ t.orphans > 0

ArmedCount(t) == t.orphans + (IF t.ref THEN 1 ELSE 0)

\* a one-shot timer fired: orphan = it was one the ref no longer names
Fired(t, orphan) == IF orphan THEN [t EXCEPT !.orphans = @ - 1] ELSE [t EXCEPT !.ref = FALSE]

\* ----------------------------------------------------------------- sockets
NewSocket == [rs |-> "CONNECTING", failed |-> FALSE, onclose |-> TRUE]

\* the refs and state of the hook, as one record
T == [socks |-> socks, isConnected |-> isConnected, ping |-> pingInterval,
      pong |-> pongTimeout, reconnect |-> reconnectTimeout]

\* ws.current (0: null)
Cur(st) == Len(st.socks)

CurState(st) == IF Cur(st) = 0 THEN "NONE" ELSE st.socks[Cur(st)].rs

\* WebSocket.close() on socket i
CloseSocket(st, i) ==
  IF i = 0 \/ st.socks[i].rs \in {"CLOSING", "CLOSED"} THEN st
  ELSE [st EXCEPT !.socks[i] = [@ EXCEPT !.rs = "CLOSING",
                                         !.failed = @ \/ st.socks[i].rs = "CONNECTING"]]

\* ------------------------------------------------------------- the handlers
ConnectUnguarded(st) ==
  LET st1 == CloseSocket(st, Cur(st))
  IN [st1 EXCEPT !.socks = Append(@, NewSocket)]

connect(st) ==
  IF Cur(st) # 0 /\ CurState(st) \in {"OPEN", "CONNECTING"} THEN st
  ELSE LET st1 == CloseSocket(st, Cur(st))
       IN [st1 EXCEPT !.socks = Append(@, NewSocket)]

onopen(st) ==
  [st EXCEPT !.isConnected = TRUE,
             !.reconnect = ClearTimer(@),
             !.ping = SetTimer(@, PING_INTERVAL_MS)]

oncloseNoReconnect(st) ==
  [st EXCEPT !.isConnected = FALSE,
             !.ping = ClearTimer(@),
             !.pong = ClearTimer(@),
             !.reconnect = ClearTimer(@)]

oncloseNoClear(st) ==
  [st EXCEPT !.isConnected = FALSE,
             !.ping = ClearTimer(@),
             !.pong = ClearTimer(@),
             !.reconnect = SetTimer(@, RECONNECT_DELAY_MS)]

onclose(st) ==
  [st EXCEPT !.isConnected = FALSE,
             !.ping = ClearTimer(@),
             !.pong = ClearTimer(@),
             !.reconnect = SetTimer(ClearTimer(@), RECONNECT_DELAY_MS)]

onerror(st) == CloseSocket(st, Cur(st))

\* the setInterval callback of onopen
PingSent(st) == Cur(st) # 0 /\ CurState(st) = "OPEN"

pingTick(st) ==
  IF PingSent(st) THEN [st EXCEPT !.pong = SetTimer(ClearTimer(@), PONG_TIMEOUT_MS)]
  ELSE st

\* the setTimeout callback of the ping tick
pongExpired(st) == CloseSocket(st, Cur(st))

checkAndReconnectKeepTimer(st) ==
  IF Cur(st) = 0 \/ CurState(st) \in {"CLOSED", "CLOSING"} THEN connect(st) ELSE st

checkAndReconnect(st) ==
  IF Cur(st) = 0 \/ CurState(st) \in {"CLOSED", "CLOSING"}
  THEN connect([st EXCEPT !.reconnect = ClearTimer(@)])
  ELSE st

clearTimers(st) ==
  [st EXCEPT !.ping = ClearTimer(@), !.pong = ClearTimer(@), !.reconnect = ClearTimer(@)]

cleanup(st) ==
  LET st1 == clearTimers(st)
      st2 == IF Cur(st1) # 0 THEN [st1 EXCEPT !.socks[Cur(st1)].onclose = FALSE] ELSE st1
  IN CloseSocket(st2, Cur(st2))

\* ------------------------------------------------------------------ frames
PushIds == 1..MaxPushId

Msg(t, r, i) == [type |-> t, reason |-> r, ids |-> i]

\* the JSON objects the server sends, by the fields the client reads: one of
\* every type the client tells apart
WireMessages ==
  {Msg("pong", "none", {}), Msg("toast", "none", {}),
   Msg("refresh_images", "none", {}), Msg("images_deleted", "none", PushIds)}

\* an inbound frame: text that is no JSON, the JSON text null, or a JSON object
Frames ==
  {[text |-> "garbage", obj |-> Msg("other", "none", {})],
   [text |-> "null", obj |-> Msg("other", "none", {})]}
  \cup {[text |-> "object", obj |-> m] : m \in WireMessages}

\* JSON.parse(event.data): it throws on text that is no JSON, and yields null
\* for the text null
JSONParse(f) ==
  [threw |-> f.text = "garbage", isNull |-> f.text = "null", value |-> f.obj]

\* the calls of messageHandler.current made by ws.onmessage for one frame
onmessageCallsPongToo(f) ==
  LET p == JSONParse(f)
  IN IF p.threw \/ p.isNull THEN <<>> ELSE <<p.value>>

onmessageCalls(f) ==
  LET p == JSONParse(f)
  IN IF p.threw THEN <<>>
     ELSE IF p.isNull THEN <<>>            \* reading .type of null throws; caught
     ELSE IF p.value.type = "pong" THEN <<>>
     ELSE <<p.value>>

\* what ws.onmessage does to the refs
onmessageAnyClearsPong(st, f) ==
  LET p == JSONParse(f)
  IN IF ~p.threw /\ ~p.isNull /\ p.value.type = "pong" THEN [st EXCEPT !.pong = ClearTimer(@)]
     ELSE [st EXCEPT !.pong = ClearTimer(@)]

onmessage(st, f) ==
  LET p == JSONParse(f)
  IN IF ~p.threw /\ ~p.isNull /\ p.value.type = "pong" THEN [st EXCEPT !.pong = ClearTimer(@)]
     ELSE st

\* AppContent.handleWebSocketMessage: a toast is shown, anything else is queued
handleWebSocketMessage(q, m) == IF m.type = "toast" THEN q ELSE Append(q, m)

RECURSIVE HandleAll(_, _)
HandleAll(q, ms) == IF ms = <<>> THEN q ELSE HandleAll(handleWebSocketMessage(q, Head(ms)), Tail(ms))

\* ---------------------------------------------------------------- the feed
ImageIds == 1..MaxId

Revs == 0..MaxRev

Item(i, r) == [id |-> i, rev |-> r]

IdsOf(s) == {s[k].id : k \in 1..Len(s)}

Max(a, b) == IF a >= b THEN a ELSE b

\* what fetchImagesApi may resolve with for a request of `limit` items: at most
\* limit items, no id twice, the items as the server holds them at one revision
Responses(limit) ==
  {s \in UNION {[1..n -> {Item(i, r) : i \in ImageIds}] : n \in 0..limit, r \in Revs} :
     \A j, k \in 1..Len(s) : s[j].id = s[k].id => j = k}

\* limit = isInitialLoad ? Math.max(images.length, imagesPerPage * 2) : imagesPerPage
Limit(isInitialLoad, closureImages) ==
  IF isInitialLoad THEN Max(Len(closureImages), PageSize * 2) ELSE PageSize

\* a fetchImages call between its request and its response: kind is "initial"
\* (isInitialLoad), "refresh" (isInitialLoad, isWsRefresh) or "more"; cached is
\* the images array of the closure that made the call; cursor is the last_id
\* the request carries (0: none).  History: old = the query changed since the
\* call; stale = a refresh called after it resolved before it
Request(kind, closureImages) ==
  [kind |-> kind, limit |-> Limit(kind # "more", closureImages),
   cached |-> IF kind = "refresh" THEN closureImages ELSE <<>>,
   cursor |-> IF kind = "more" THEN lastId ELSE 0,
   old |-> FALSE, stale |-> FALSE]

NoRequest ==
  [kind |-> "none", limit |-> 0, cached |-> <<>>, cursor |-> 0, old |-> FALSE, stale |-> FALSE]

\* the requests in flight once the query changed
Outdated(reqs) == [j \in 1..Len(reqs) |-> [reqs[j] EXCEPT !.old = TRUE]]

\* the requests in flight once the refresh at place i resolved
Overtaken(reqs, i) ==
  [j \in 1..Len(reqs) |->
     IF j < i /\ reqs[j].kind = "more" THEN [reqs[j] EXCEPT !.stale = TRUE] ELSE reqs[j]]

\* Array.from(new Map(combined.map(item => [item.id, item])).values()): a key
\* keeps the place of its first entry and the value of its last
MapValues(combined) ==
  LET first(k) == \A j \in 1..(k - 1) : combined[j].id # combined[k].id
      last(k) == CHOOSE j \in 1..Len(combined) :
                   /\ combined[j].id = combined[k].id
                   /\ \A m \in (j + 1)..Len(combined) : combined[m].id # combined[k].id
      F[k \in 0..Len(combined)] ==
        IF k = 0 THEN <<>>
        ELSE IF first(k) THEN Append(F[k - 1], combined[last(k)]) ELSE F[k - 1]
  IN F[Len(combined)]

\* the isWsRefresh branch of fetchImages
ReconcileUnfiltered(data, cached) == MapValues(data \o cached)

ReconcileAddsOnly(data, cached) ==
  LET new(img) == img.id \notin IdsOf(cached)
  IN cached \o SelectSeq(data, new)

ReconcileCachedFirst(data, cached) ==
  LET fresh(img) == img.id \in IdsOf(data)
  IN SelectSeq(MapValues(cached \o data), fresh)

Reconcile(data, cached) ==
  LET fresh(img) == img.id \in IdsOf(data)
  IN SelectSeq(MapValues(data \o cached), fresh)

\* the append branch of fetchImages
AppendAll(prevImages, data) == prevImages \o data

AppendUnique(prevImages, data) ==
  LET isNew(img) == img.id \notin IdsOf(prevImages)
  IN prevImages \o SelectSeq(data, isNew)

\* prev.filter(img => !ids.has(img.id))
RemoveOneId(prev, ids) ==
  LET kept(img) == \A i \in ids : img.id = i => \E j \in ids : j < i
  IN SelectSeq(prev, kept)

RemoveIds(prev, ids) ==
  LET kept(img) == img.id \notin ids
  IN SelectSeq(prev, kept)

RemoveAt(s, i) == SubSeq(s, 1, i - 1) \o SubSeq(s, i + 1, Len(s))

\* the ids of the removal events of a batch
deletedImageIds(batch) ==
  UNION {batch[k].ids : k \in {j \in 1..Len(batch) :
                                  batch[j].type \in {"image_deleted", "images_deleted"}}}

hasGeneralRefresh(batch) == \E k \in 1..Len(batch) : batch[k].type = "refresh_images"

hasBulkTagUpdate(batch) ==
  \E k \in 1..Len(batch) :
    batch[k].type = "refresh_images" /\ batch[k].reason = "tags_updated_bulk"

\* the grid's effects on selection, run until no effect sets state: dI, dS, dM =
\* images, selectedImages, isSelectMode changed in the render the effects follow
RECURSIVE EffectsNoPrune(_, _, _, _, _, _)
EffectsNoPrune(sel, mode, ids, dI, dS, dM) ==
  LET clear == dM /\ ~mode
      exit == dS /\ mode /\ sel = {}
      sel1 == IF clear THEN {} ELSE sel
      mode1 == IF exit THEN FALSE ELSE mode
  IN IF ~(clear \/ exit) THEN [sel |-> sel, mode |-> mode]
     ELSE EffectsNoPrune(sel1, mode1, ids, FALSE, clear, mode1 # mode)

RECURSIVE EffectsNoExit(_, _, _, _, _, _)
EffectsNoExit(sel, mode, ids, dI, dS, dM) ==
  LET clear == dM /\ ~mode
      prune == dI /\ sel # {}
      sel1 == IF prune THEN sel \cap ids ELSE IF clear THEN {} ELSE sel
  IN IF ~(clear \/ prune) THEN [sel |-> sel, mode |-> mode]
     ELSE EffectsNoExit(sel1, mode, ids, FALSE, clear \/ prune, FALSE)

\* the effects without the one that empties the selection when the mode ends
RECURSIVE EffectsNoClear(_, _, _, _, _, _)
EffectsNoClear(sel, mode, ids, dI, dS, dM) ==
  LET prune == dI /\ sel # {}
      exit == dS /\ mode /\ sel = {}
      sel1 == IF prune THEN sel \cap ids ELSE sel
      mode1 == IF exit THEN FALSE ELSE mode
  IN IF ~(prune \/ exit) THEN [sel |-> sel, mode |-> mode]
     ELSE EffectsNoClear(sel1, mode1, ids, FALSE, prune, mode1 # mode)

\* the effects, were the auto-exit effect to run in every render and not only
\* when the selection was set
RECURSIVE EffectsExitEveryRender(_, _, _, _, _, _)
EffectsExitEveryRender(sel, mode, ids, dI, dS, dM) ==
  LET clear == dM /\ ~mode
      prune == dI /\ sel # {}
      exit == mode /\ sel = {}
      sel1 == IF prune THEN sel \cap ids ELSE IF clear THEN {} ELSE sel
      mode1 == IF exit THEN FALSE ELSE mode
  IN IF ~(clear \/ prune \/ exit) THEN [sel |-> sel, mode |-> mode]
     ELSE EffectsExitEveryRender(sel1, mode1, ids, FALSE, clear \/ prune, mode1 # mode)

RECURSIVE Effects(_, _, _, _, _, _)
Effects(sel, mode, ids, dI, dS, dM) ==
  LET clear == dM /\ ~mode
      prune == dI /\ sel # {}
      exit == dS /\ mode /\ sel = {}
      sel1 == IF prune THEN sel \cap ids ELSE IF clear THEN {} ELSE sel
      mode1 == IF exit THEN FALSE ELSE mode
  IN IF ~(clear \/ prune \/ exit) THEN [sel |-> sel, mode |-> mode]
     ELSE Effects(sel1, mode1, ids, FALSE, clear \/ prune, mode1 # mode)

\* ------------------------------------------------------------------ actions
SetT(st) ==
  /\ socks' = st.socks
  /\ isConnected' = st.isConnected
  /\ pingInterval' = st.ping
  /\ pongTimeout' = st.pong
  /\ reconnectTimeout' = st.reconnect

NoFrame == [text |-> "none", obj |-> Msg("other", "none", {})]

\* the handler that runs now: its name, the socket it is about, and what held
\* when it started
Ev(n, s) ==
  [name |-> n, sock |-> s, frame |-> NoFrame, calls |-> <<>>, sent |-> FALSE,
   req |-> NoRequest, data |-> <<>>,
   pre |-> [cur |-> Len(socks), rs |-> socks[Len(socks)].rs,
            reconnect |-> reconnectTimeout.ref, pong |-> pongTimeout.ref,
            queue |-> Len(queue)]]

Init ==
  /\ socks = <<NewSocket>>
  /\ isConnected = FALSE
  /\ pingInterval = NoTimer
  /\ pongTimeout = NoTimer
  /\ reconnectTimeout = NoTimer
  /\ tornDown = FALSE
  /\ queue = <<>>
  /\ images = <<>>
  /\ captured = <<>>
  /\ lastId = 0
  /\ hasMore = TRUE
  /\ isFetchingMore = FALSE
  /\ imagesLoading = TRUE
  /\ imagesError = FALSE
  /\ inflight = <<Request("initial", <<>>)>>
  /\ selectedImages = {}
  /\ isSelectMode = FALSE
  /\ isAuthenticated = TRUE
  /\ loading = FALSE
  /\ rendered = <<>>
  /\ hist = [last |-> "none", started |-> TRUE, applied |-> FALSE, blocked |-> FALSE]
  /\ ev = [name |-> "mount", sock |-> 1, frame |-> NoFrame, calls |-> <<>>, sent |-> FALSE,
           req |-> NoRequest, data |-> <<>>,
           pre |-> [cur |-> 0, rs |-> "NONE", reconnect |-> FALSE, pong |-> FALSE, queue |-> 0]]

\* the open event of socket s
SocketOpened(s) ==
  /\ socks[s].rs = "CONNECTING"
  /\ SetT(onopen([T EXCEPT !.socks[s].rs = "OPEN"]))
  /\ ev' = Ev("open", s)
  /\ UNCHANGED <<tornDown, queue, fvars, svars>>

\* the connection of socket s ended: err = it failed, so that an error event
\* precedes the close event
SocketClosed(s, err) ==
  /\ socks[s].rs # "CLOSED"
  /\ (socks[s].failed \/ socks[s].rs = "CONNECTING") => err
  /\ LET st1 == [T EXCEPT !.socks[s].rs = "CLOSED"]
         st2 == IF err THEN onerror(st1) ELSE st1
         st3 == IF socks[s].onclose THEN onclose(st2) ELSE st2
     IN SetT(st3)
  /\ ev' = Ev(IF err THEN "errorclose" ELSE "close", s)
  /\ UNCHANGED <<tornDown, queue, fvars, svars>>

\* a frame arrives on socket s
SocketMessage(s, f) ==
  /\ socks[s].rs = "OPEN"
  /\ Len(HandleAll(queue, onmessageCalls(f))) <= MaxPending
  /\ SetT(onmessage(T, f))
  /\ queue' = HandleAll(queue, onmessageCalls(f))
  /\ ev' = [Ev("message", s) EXCEPT !.frame = f, !.calls = onmessageCalls(f)]
  /\ UNCHANGED <<tornDown, fvars, svars>>

\* a ping interval fires: orphan = one the ref pingInterval no longer names
PingTimer(orphan) ==
  /\ IF orphan THEN pingInterval.orphans > 0 ELSE pingInterval.ref
  /\ SetT(pingTick(T))
  /\ ev' = [Ev("ping", Cur(T)) EXCEPT !.sent = PingSent(T)]
  /\ UNCHANGED <<tornDown, queue, fvars, svars>>

\* the pong watchdog expires
PongTimer(orphan) ==
  /\ IF orphan THEN pongTimeout.orphans > 0 ELSE pongTimeout.ref
  /\ SetT(pongExpired([T EXCEPT !.pong = Fired(@, orphan)]))
  /\ ev' = Ev("watchdog", Cur(T))
  /\ UNCHANGED <<tornDown, queue, fvars, svars>>

\* the reconnect delay ends
ReconnectTimer(orphan) ==
  /\ IF orphan THEN reconnectTimeout.orphans > 0 ELSE reconnectTimeout.ref
  /\ LET st == connect([T EXCEPT !.reconnect = Fired(@, orphan)])
     IN /\ Len(st.socks) <= MaxSockets
        /\ SetT(st)
  /\ ev' = Ev("reconnect", Cur(T))
  /\ UNCHANGED <<tornDown, queue, fvars, svars>>

\* online, pageshow, or visibilitychange to visible
LivenessSignal ==
  /\ ~tornDown
  /\ LET st == checkAndReconnect(T)
     IN /\ Len(st.socks) <= MaxSockets
        /\ SetT(st)
  /\ ev' = Ev("liveness", Cur(T))
  /\ UNCHANGED <<tornDown, queue, fvars, svars>>

\* baseUrl, token or isAdmin changed: the effect's cleanup, then the effect again
EffectRerun ==
  /\ ~tornDown
  /\ LET st == connect(cleanup(T))
     IN /\ Len(st.socks) <= MaxSockets
        /\ SetT(st)
  /\ ev' = Ev("rerun", Cur(T))
  /\ UNCHANGED <<tornDown, queue, fvars, svars>>

\* the effect's cleanup (unmount, sign-out)
Cleanup ==
  /\ ~tornDown
  /\ SetT(cleanup(T))
  /\ tornDown' = TRUE
  /\ ev' = Ev("cleanup", Cur(T))
  /\ UNCHANGED <<queue, fvars, svars>>

Next ==
  \/ \E s \in 1..Len(socks) : SocketOpened(s)
  \/ \E s \in 1..Len(socks), err \in BOOLEAN : SocketClosed(s, err)
  \/ \E s \in 1..Len(socks), f \in Frames : SocketMessage(s, f)
  \/ \E o \in BOOLEAN : PingTimer(o)
  \/ \E o \in BOOLEAN : PongTimer(o)
  \/ \E o \in BOOLEAN : ReconnectTimer(o)
  \/ LivenessSignal
  \/ EffectRerun
  \/ Cleanup

Spec == Init /\ [][Next]_vars

\* the platform ends every closing handshake, and a timer that stays armed fires
CloseHandshakeEnds ==
  \E s \in 1..Len(socks), err \in BOOLEAN : socks[s].rs = "CLOSING" /\ SocketClosed(s, err)

ReconnectDelayEnds == \E o \in BOOLEAN : ReconnectTimer(o)

FairSpec == Spec /\ WF_vars(CloseHandshakeEnds) /\ WF_vars(ReconnectDelayEnds)

\* ------------------------------------------------------------ feed actions
SetSelection(sel, mode, ids, dI, dS, dM) ==
  LET e == Effects(sel, mode, ids, dI, dS, dM)
  IN /\ selectedImages' = e.sel
     /\ isSelectMode' = e.mode

\* the query (search term, sort, filters) changed: the fetch effect runs again
\* with the fetchImages closure of this render
QueryChange ==
  /\ isAuthenticated
  /\ Len(inflight) < MaxInFlight
  /\ captured' = images
  /\ lastId' = 0
  /\ hasMore' = TRUE
  /\ imagesLoading' = TRUE
  /\ imagesError' = FALSE
  /\ inflight' = Append(Outdated(inflight), Request("initial", images))
  /\ hist' = [hist EXCEPT !.started = TRUE, !.applied = FALSE, !.blocked = FALSE]
  /\ ev' = Ev("query", 0)
  /\ UNCHANGED <<tvars, loading, rendered, isAuthenticated, queue, images, isFetchingMore, svars>>

\* fetchMoreImages: the grid asks for the next page
FetchMore ==
  /\ isAuthenticated
  /\ hasMore /\ ~isFetchingMore
  /\ Len(inflight) < MaxInFlight
  /\ isFetchingMore' = TRUE
  /\ imagesError' = FALSE
  /\ inflight' = Append(inflight, Request("more", captured))
  /\ hist' = [hist EXCEPT !.started = TRUE]
  /\ ev' = Ev("fetchMore", 0)
  /\ UNCHANGED <<tvars, loading, rendered, isAuthenticated, queue, images, captured, lastId, hasMore, imagesLoading, svars>>

\* fetchImagesApi of request i resolved with data
FetchResolved(i, data) ==
  /\ images' = CASE inflight[i].kind = "initial" -> data
                 [] inflight[i].kind = "refresh" -> Reconcile(data, inflight[i].cached)
                 [] inflight[i].kind = "more" -> AppendUnique(images, data)
  /\ lastId' = IF Len(data) > 0 THEN data[Len(data)].id ELSE lastId
  /\ hasMore' = (Len(data) = inflight[i].limit)
  /\ imagesLoading' = FALSE
  /\ isFetchingMore' = FALSE
  /\ inflight' = RemoveAt(IF inflight[i].kind = "refresh" THEN Overtaken(inflight, i)
                          ELSE inflight, i)
  /\ SetSelection(selectedImages, isSelectMode, IdsOf(images'), TRUE, FALSE, FALSE)
  /\ hist' = [last |-> IF Len(data) = inflight[i].limit THEN "full" ELSE "short",
              started |-> FALSE,
              applied |-> hist.applied \/ (inflight[i].kind = "initial" /\ ~inflight[i].old),
              blocked |-> hist.blocked]
  /\ ev' = [Ev(inflight[i].kind, 0) EXCEPT !.req = inflight[i], !.data = data]
  /\ UNCHANGED <<tvars, loading, rendered, isAuthenticated, queue, captured, imagesError>>

\* fetchImagesApi of request i rejected
FetchRejectedSilently(i) ==
  /\ hasMore' = FALSE
  /\ imagesLoading' = FALSE
  /\ isFetchingMore' = FALSE
  /\ inflight' = RemoveAt(inflight, i)
  /\ hist' = [hist EXCEPT !.last = "failed", !.started = FALSE,
                          !.blocked = @ \/ inflight[i].kind = "more"]
  /\ ev' = [Ev("rejected", 0) EXCEPT !.req = inflight[i]]
  /\ UNCHANGED <<tvars, loading, rendered, isAuthenticated, queue, images, captured, lastId, imagesError, svars>>

FetchRejectedDropsItems(i) ==
  /\ imagesError' = TRUE
  /\ hasMore' = FALSE
  /\ imagesLoading' = FALSE
  /\ isFetchingMore' = FALSE
  /\ images' = <<>>
  /\ lastId' = 0
  /\ inflight' = RemoveAt(inflight, i)
  /\ hist' = [hist EXCEPT !.last = "failed", !.started = FALSE,
                          !.blocked = @ \/ inflight[i].kind = "more"]
  /\ ev' = [Ev("rejected", 0) EXCEPT !.req = inflight[i]]
  /\ UNCHANGED <<tvars, loading, rendered, isAuthenticated, queue, captured, svars>>

\* a rejection, were the flags cleared after the try block and not in finally
FetchRejectedLeavesFlags(i) ==
  /\ imagesError' = TRUE
  /\ hasMore' = FALSE
  /\ inflight' = RemoveAt(inflight, i)
  /\ hist' = [hist EXCEPT !.last = "failed", !.started = FALSE,
                          !.blocked = @ \/ inflight[i].kind = "more"]
  /\ ev' = [Ev("rejected", 0) EXCEPT !.req = inflight[i]]
  /\ UNCHANGED <<tvars, loading, rendered, isAuthenticated, queue, images, captured, lastId,
                 imagesLoading, isFetchingMore, svars>>

FetchRejected(i) ==
  /\ imagesError' = TRUE
  /\ hasMore' = FALSE
  /\ imagesLoading' = FALSE
  /\ isFetchingMore' = FALSE
  /\ inflight' = RemoveAt(inflight, i)
  /\ hist' = [hist EXCEPT !.last = "failed", !.started = FALSE,
                          !.blocked = @ \/ inflight[i].kind = "more"]
  /\ ev' = [Ev("rejected", 0) EXCEPT !.req = inflight[i]]
  /\ UNCHANGED <<tvars, loading, rendered, isAuthenticated, queue, images, captured, lastId, svars>>

\* handleApiAction: a delete / restore call for ids succeeded
ApiActionSucceeded(ids) ==
  /\ images' = RemoveIds(images, ids)
  /\ SetSelection(selectedImages \ ids, isSelectMode, IdsOf(images'), TRUE, TRUE, FALSE)
  /\ ev' = Ev("removed", 0)
  /\ UNCHANGED <<tvars, loading, rendered, isAuthenticated, queue, captured, lastId, hasMore, isFetchingMore, imagesLoading,
                 imagesError, inflight, hist>>

\* the grid's effect on the queue as it was before removals were applied to the
\* cache directly: any removal or refresh invalidates the query
ProcessBatchInvalidates ==
  /\ queue # <<>>
  /\ (hasGeneralRefresh(queue) \/ deletedImageIds(queue) # {}) => Len(inflight) < MaxInFlight
  /\ IF hasGeneralRefresh(queue) \/ deletedImageIds(queue) # {}
     THEN /\ imagesError' = FALSE
          /\ inflight' = Append(inflight, Request("refresh", captured))
          /\ hist' = [hist EXCEPT !.started = TRUE, !.blocked = FALSE]
     ELSE UNCHANGED <<imagesError, inflight, hist>>
  /\ queue' = <<>>
  /\ ev' = [Ev("batch", 0) EXCEPT !.calls = queue]
  /\ UNCHANGED <<tvars, loading, rendered, isAuthenticated, images, captured, lastId, hasMore, isFetchingMore,
                 imagesLoading, svars>>

\* the effect, were it to stop reading removal events at the first refresh
ProcessBatchStopsAtRefresh ==
  LET first == CHOOSE k \in 1..(Len(queue) + 1) :
                 /\ k <= Len(queue) => queue[k].type = "refresh_images"
                 /\ \A j \in 1..(k - 1) : queue[j].type # "refresh_images"
      ids == deletedImageIds(SubSeq(queue, 1, first - 1))
  IN /\ queue # <<>>
     /\ hasGeneralRefresh(queue) => Len(inflight) < MaxInFlight
     /\ images' = RemoveIds(images, ids)
     /\ IF hasGeneralRefresh(queue)
        THEN /\ imagesError' = FALSE
             /\ inflight' = Append(inflight, Request("refresh", captured))
             /\ hist' = [hist EXCEPT !.started = TRUE, !.blocked = FALSE]
        ELSE UNCHANGED <<imagesError, inflight, hist>>
     /\ IF hasBulkTagUpdate(queue)
        THEN SetSelection({}, FALSE, IdsOf(images'), ids # {}, TRUE, isSelectMode)
        ELSE SetSelection(selectedImages, isSelectMode, IdsOf(images'), ids # {}, FALSE, FALSE)
     /\ queue' = <<>>
     /\ ev' = [Ev("batch", 0) EXCEPT !.calls = queue]
     /\ UNCHANGED <<tvars, loading, rendered, isAuthenticated, captured, lastId, hasMore, isFetchingMore,
                    imagesLoading>>

\* the effect, were any refresh to end the selection as a bulk tag update does
ProcessBatchClearsOnRefresh ==
  /\ queue # <<>>
  /\ hasGeneralRefresh(queue) => Len(inflight) < MaxInFlight
  /\ images' = RemoveIds(images, deletedImageIds(queue))
  /\ IF hasGeneralRefresh(queue)
     THEN /\ imagesError' = FALSE
          /\ inflight' = Append(inflight, Request("refresh", captured))
          /\ hist' = [hist EXCEPT !.started = TRUE, !.blocked = FALSE]
     ELSE UNCHANGED <<imagesError, inflight, hist>>
  /\ IF hasGeneralRefresh(queue)
     THEN SetSelection({}, FALSE, IdsOf(images'), deletedImageIds(queue) # {}, TRUE, isSelectMode)
     ELSE SetSelection(selectedImages, isSelectMode, IdsOf(images'),
                       deletedImageIds(queue) # {}, FALSE, FALSE)
  /\ queue' = <<>>
  /\ ev' = [Ev("batch", 0) EXCEPT !.calls = queue]
  /\ UNCHANGED <<tvars, loading, rendered, isAuthenticated, captured, lastId, hasMore, isFetchingMore,
                 imagesLoading>>

\* the effect, were it to leave the selection alone on a bulk tag update
ProcessBatchKeepsSelection ==
  /\ queue # <<>>
  /\ hasGeneralRefresh(queue) => Len(inflight) < MaxInFlight
  /\ images' = RemoveIds(images, deletedImageIds(queue))
  /\ IF hasGeneralRefresh(queue)
     THEN /\ imagesError' = FALSE
          /\ inflight' = Append(inflight, Request("refresh", captured))
          /\ hist' = [hist EXCEPT !.started = TRUE, !.blocked = FALSE]
     ELSE UNCHANGED <<imagesError, inflight, hist>>
  /\ SetSelection(selectedImages, isSelectMode, IdsOf(images'),
                  deletedImageIds(queue) # {}, FALSE, FALSE)
  /\ queue' = <<>>
  /\ ev' = [Ev("batch", 0) EXCEPT !.calls = queue]
  /\ UNCHANGED <<tvars, loading, rendered, isAuthenticated, captured, lastId, hasMore,
                 isFetchingMore, imagesLoading>>

\* the grid's effect run on the webSocketMessage array w its render saw:
\* removals, then the refresh, then the bulk tag update, then the queue is
\* emptied
ImageGridEffect(w) ==
  /\ w # <<>>
  /\ hasGeneralRefresh(w) => Len(inflight) < MaxInFlight
  /\ images' = IF deletedImageIds(w) # {} THEN RemoveIds(images, deletedImageIds(w))
               ELSE images
  /\ IF hasGeneralRefresh(w)
     THEN /\ imagesError' = FALSE
          /\ inflight' = Append(inflight, Request("refresh", captured))
          /\ hist' = [hist EXCEPT !.started = TRUE, !.blocked = FALSE]
     ELSE UNCHANGED <<imagesError, inflight, hist>>
  /\ IF hasBulkTagUpdate(w)
     THEN SetSelection({}, FALSE, IdsOf(images'), deletedImageIds(w) # {}, TRUE, isSelectMode)
     ELSE SetSelection(selectedImages, isSelectMode, IdsOf(images'),
                       deletedImageIds(w) # {}, FALSE, FALSE)
  /\ queue' = <<>>
  /\ ev' = [Ev("batch", 0) EXCEPT !.calls = w]
  /\ UNCHANGED <<tvars, isAuthenticated, captured, lastId, hasMore, isFetchingMore, imagesLoading>>

\* the grid renders and its effect runs before another event arrives; no
\* folder tree is mounted
ProcessBatch ==
  /\ ImageGridEffect(queue)
  /\ UNCHANGED <<loading, rendered>>

\* the context menu's Select on item id
MenuSelect(id) ==
  /\ SetSelection({id}, TRUE, IdsOf(images), FALSE, TRUE, ~isSelectMode)
  /\ ev' = Ev("select", 0)
  /\ UNCHANGED <<tvars, queue, fvars>>

\* handleImageClick in select mode, without shift
ImageClick(id) ==
  /\ isSelectMode
  /\ SetSelection(IF id \in selectedImages THEN selectedImages \ {id}
                  ELSE selectedImages \cup {id},
                  isSelectMode, IdsOf(images), FALSE, TRUE, FALSE)
  /\ ev' = Ev("click", 0)
  /\ UNCHANGED <<tvars, queue, fvars>>

\* the navbar's select-mode button
ToggleSelectMode ==
  /\ SetSelection(selectedImages, ~isSelectMode, IdsOf(images), FALSE, FALSE, TRUE)
  /\ ev' = Ev("toggle", 0)
  /\ UNCHANGED <<tvars, queue, fvars>>

\* the selection toolbar's Select All
handleSelectAll ==
  /\ isSelectMode
  /\ SetSelection(IdsOf(images), isSelectMode, IdsOf(images), FALSE, TRUE, FALSE)
  /\ ev' = Ev("selectAll", 0)
  /\ UNCHANGED <<tvars, queue, fvars>>

\* the selection toolbar's Deselect All, disabled while nothing is selected
handleClearSelection ==
  /\ isSelectMode
  /\ selectedImages # {}
  /\ SetSelection({}, isSelectMode, IdsOf(images), FALSE, TRUE, FALSE)
  /\ ev' = Ev("clearSelection", 0)
  /\ UNCHANGED <<tvars, queue, fvars>>

\* handleImageClick in select mode with shift, the focus being on item focus
\* (an id the grid showed once)
RangeSelect(focus, id) ==
  /\ isSelectMode
  /\ LET at(x) == CHOOSE k \in 1..Len(images) : images[k].id = x
         lo == IF at(focus) < at(id) THEN at(focus) ELSE at(id)
         hi == IF at(focus) < at(id) THEN at(id) ELSE at(focus)
         rangeToSelect == {images[k].id : k \in lo..hi}
     IN IF focus \in IdsOf(images)
        THEN SetSelection(selectedImages \cup rangeToSelect, isSelectMode, IdsOf(images),
                          FALSE, TRUE, FALSE)
        ELSE UNCHANGED svars
  /\ ev' = Ev("range", 0)
  /\ UNCHANGED <<tvars, queue, fvars>>

\* the transport hands push event m to onMessage
PushDelivered(m) ==
  /\ Len(handleWebSocketMessage(queue, m)) <= MaxPending
  /\ queue' = handleWebSocketMessage(queue, m)
  /\ ev' = Ev("push", 0)
  /\ UNCHANGED <<tvars, fvars, svars>>

\* the feed and the selection, the transport seen as the source of push events
FeedNext ==
  \/ \E m \in WireMessages \ {Msg("pong", "none", {})} : PushDelivered(m)
  \/ QueryChange
  \/ FetchMore
  \/ \E i \in 1..Len(inflight) : \E data \in Responses(inflight[i].limit) : FetchResolved(i, data)
  \/ \E i \in 1..Len(inflight) : FetchRejected(i)
  \/ \E id \in IdsOf(images) : ApiActionSucceeded({id})
  \/ selectedImages # {} /\ ApiActionSucceeded(selectedImages)
  \/ ProcessBatch
  \/ \E id \in IdsOf(images) : MenuSelect(id)
  \/ \E id \in IdsOf(images) : ImageClick(id)

FeedSpec == Init /\ [][FeedNext]_vars

\* ------------------------------------------------- the feed across sign-out
\* isAuthenticated became false: the fetch effect takes its signed-out branch
SignOut ==
  /\ isAuthenticated
  /\ isAuthenticated' = FALSE
  /\ images' = <<>>
  /\ captured' = images
  /\ lastId' = 0
  /\ hasMore' = FALSE
  /\ isFetchingMore' = FALSE
  /\ imagesLoading' = FALSE
  /\ imagesError' = FALSE
  /\ SetSelection(selectedImages, isSelectMode, {}, TRUE, FALSE, FALSE)
  /\ ev' = Ev("signOut", 0)
  /\ UNCHANGED <<tvars, loading, rendered, queue, inflight, hist>>

SessionNext ==
  \/ QueryChange
  \/ FetchMore
  \/ \E i \in 1..Len(inflight) : \E data \in Responses(inflight[i].limit) : FetchResolved(i, data)
  \/ \E i \in 1..Len(inflight) : FetchRejected(i)
  \/ \E id \in IdsOf(images) : MenuSelect(id)
  \/ SignOut

SessionSpec == Init /\ [][SessionNext]_vars

\* the promise of some pending fetchImagesApi call settles
FetchSettled ==
  \/ \E i \in 1..Len(inflight) : \E data \in Responses(inflight[i].limit) : FetchResolved(i, data)
  \/ \E i \in 1..Len(inflight) : FetchRejected(i)

\* every pending request ends, with a response or with an error
FairSessionSpec == SessionSpec /\ WF_vars(FetchSettled)

\* -------------------------------------------- the selection over the feed
\* every way the selection and the cache change, one fetch at a time
SelectionNext ==
  \/ \E m \in WireMessages \ {Msg("pong", "none", {})} : PushDelivered(m)
  \/ inflight = <<>> /\ QueryChange
  \/ inflight = <<>> /\ FetchMore
  \/ \E i \in 1..Len(inflight) : \E data \in Responses(inflight[i].limit) : FetchResolved(i, data)
  \/ \E i \in 1..Len(inflight) : FetchRejected(i)
  \/ \E id \in IdsOf(images) : ApiActionSucceeded({id})
  \/ selectedImages # {} /\ ApiActionSucceeded(selectedImages)
  \/ (hasGeneralRefresh(queue) => inflight = <<>>) /\ ProcessBatch
  \/ \E id \in IdsOf(images) : MenuSelect(id)
  \/ \E id \in IdsOf(images) : ImageClick(id)
  \/ ToggleSelectMode
  \/ handleSelectAll
  \/ handleClearSelection
  \/ \E focus \in ImageIds : \E id \in IdsOf(images) : RangeSelect(focus, id)

SelectionSpec == Init /\ [][SelectionNext]_vars

\* ------------------------------------------- the reconciliation on its own
\* a revision newer than any the cache holds
FreshRev == MaxRev + 1

\* any list of cached items, and any list of newly fetched ones
CachedLists ==
  UNION {[1..n -> {Item(i, r) : i \in ImageIds, r \in Revs}] : n \in 0..(MaxId + 1)}

FreshLists == UNION {[1..n -> {Item(i, FreshRev) : i \in ImageIds}] : n \in 0..(MaxId + 1)}

\* a refresh is awaiting its response; its closure holds any list
ReconcileInit ==
  /\ socks = <<NewSocket>>
  /\ isConnected = FALSE
  /\ pingInterval = NoTimer
  /\ pongTimeout = NoTimer
  /\ reconnectTimeout = NoTimer
  /\ tornDown = FALSE
  /\ queue = <<>>
  /\ captured \in CachedLists
  /\ images = captured
  /\ lastId = 0
  /\ hasMore = TRUE
  /\ isFetchingMore = FALSE
  /\ imagesLoading = FALSE
  /\ imagesError = FALSE
  /\ inflight = <<Request("refresh", captured)>>
  /\ selectedImages = {}
  /\ isSelectMode = FALSE
  /\ isAuthenticated = TRUE
  /\ loading = FALSE
  /\ rendered = <<>>
  /\ hist = [last |-> "none", started |-> TRUE, applied |-> FALSE, blocked |-> FALSE]
  /\ ev = [name |-> "mount", sock |-> 1, frame |-> NoFrame, calls |-> <<>>, sent |-> FALSE,
           req |-> NoRequest, data |-> <<>>,
           pre |-> [cur |-> 0, rs |-> "NONE", reconnect |-> FALSE, pong |-> FALSE, queue |-> 0]]

\* the refresh commits Reconcile(fresh, cached)
ReconcileApplied(fresh) ==
  /\ inflight # <<>>
  /\ images' = Reconcile(fresh, inflight[1].cached)
  /\ inflight' = <<>>
  /\ ev' = [Ev("reconcile", 0) EXCEPT !.req = inflight[1], !.data = fresh]
  /\ UNCHANGED <<tvars, loading, rendered, isAuthenticated, queue, captured, lastId, hasMore, isFetchingMore, imagesLoading,
                 imagesError, svars, hist>>

ReconcileNext == \E fresh \in FreshLists : ReconcileApplied(fresh)

ReconcileSpec == ReconcileInit /\ [][ReconcileNext]_vars

\* ---------------------------------------------------- a removal on its own
\* the cache holds any list (in captured too, which no removal touches)
RemovalInit ==
  /\ socks = <<NewSocket>>
  /\ isConnected = FALSE
  /\ pingInterval = NoTimer
  /\ pongTimeout = NoTimer
  /\ reconnectTimeout = NoTimer
  /\ tornDown = FALSE
  /\ queue = <<>>
  /\ captured \in CachedLists
  /\ images = captured
  /\ lastId = 0
  /\ hasMore = TRUE
  /\ isFetchingMore = FALSE
  /\ imagesLoading = FALSE
  /\ imagesError = FALSE
  /\ inflight = <<>>
  /\ selectedImages = {}
  /\ isSelectMode = FALSE
  /\ isAuthenticated = TRUE
  /\ loading = FALSE
  /\ rendered = <<>>
  /\ hist = [last |-> "none", started |-> FALSE, applied |-> FALSE, blocked |-> FALSE]
  /\ ev = [name |-> "mount", sock |-> 1, frame |-> NoFrame, calls |-> <<>>, sent |-> FALSE,
           req |-> NoRequest, data |-> <<>>,
           pre |-> [cur |-> 0, rs |-> "NONE", reconnect |-> FALSE, pong |-> FALSE, queue |-> 0]]

\* the removal event for ids is delivered, for the first time or once more
RemovalApplied(ids) ==
  /\ Len(ev.calls) < MaxDeliveries
  /\ ev.calls # <<>> => ev.calls[1].ids = ids
  /\ images' = RemoveIds(images, ids)
  /\ ev' = [Ev("removal", 0) EXCEPT !.calls = Append(ev.calls, Msg("images_deleted", "none", ids))]
  /\ UNCHANGED <<tvars, loading, rendered, queue, captured, lastId, hasMore, isFetchingMore, imagesLoading,
                 imagesError, inflight, svars, isAuthenticated, hist>>

RemovalNext == \E ids \in SUBSET (1..(MaxPushId + 1)) : RemovalApplied(ids)

RemovalSpec == RemovalInit /\ [][RemovalNext]_vars

\* ------------------------------------------------------ a batch on its own
\* the push events the grid tells apart: a refresh, a bulk tag update, a
\* refresh that names one item, one removal, several removals
BatchMessages ==
  {Msg("refresh_images", "none", {}), Msg("refresh_images", "tags_updated_bulk", {})}
  \cup {Msg("refresh_images", "none", {i}) : i \in PushIds}
  \cup {Msg("image_deleted", "none", {i}) : i \in PushIds}
  \cup {Msg("images_deleted", "none", S) : S \in SUBSET PushIds \ {{}}}

Batches == UNION {[1..n -> BatchMessages] : n \in 1..MaxBatch}

\* a feed without a repeated id
FeedLists ==
  {l \in CachedLists : \A j, k \in 1..Len(l) : l[j].id = l[k].id => j = k}

\* the grid shows any feed (kept in captured), with any selection, no fetch
\* is in flight, and any batch waits in the queue
BatchInit ==
  /\ socks = <<NewSocket>>
  /\ isConnected = FALSE
  /\ pingInterval = NoTimer
  /\ pongTimeout = NoTimer
  /\ reconnectTimeout = NoTimer
  /\ tornDown = FALSE
  /\ queue \in Batches
  /\ captured \in FeedLists
  /\ images = captured
  /\ lastId = IF images = <<>> THEN 0 ELSE images[Len(images)].id
  /\ hasMore = FALSE
  /\ isFetchingMore = FALSE
  /\ imagesLoading = FALSE
  /\ imagesError = FALSE
  /\ inflight = <<>>
  /\ selectedImages \in SUBSET IdsOf(images)
  /\ isSelectMode = (selectedImages # {})
  /\ isAuthenticated = TRUE
  /\ loading = FALSE
  /\ rendered = <<>>
  /\ hist = [last |-> "short", started |-> FALSE, applied |-> TRUE, blocked |-> FALSE]
  /\ ev = [name |-> "mount", sock |-> 1, frame |-> NoFrame, calls |-> <<>>, sent |-> FALSE,
           req |-> NoRequest, data |-> <<>>,
           pre |-> [cur |-> 0, rs |-> "NONE", reconnect |-> FALSE, pong |-> FALSE, queue |-> 0]]

BatchNext ==
  \/ ProcessBatch
  \/ \E i \in 1..Len(inflight) : \E data \in Responses(inflight[i].limit) : FetchResolved(i, data)
  \/ \E i \in 1..Len(inflight) : FetchRejected(i)

BatchSpec == BatchInit /\ [][BatchNext]_vars

\* ---------------------------------------------------- a refresh on its own
\* a feed grown by pagination: up to one item more than two pages hold
LoadedLists ==
  {l \in UNION {[1..n -> {Item(i, r) : i \in 1..(MaxId + 1), r \in Revs}] : n \in 0..(MaxId + 1)} :
     \A j, k \in 1..Len(l) : l[j].id = l[k].id => j = k}

\* the grid shows a feed that grew since the fetchImages closure was made at the
\* last query change (captured: the list of that render), and a refresh
\* event waits in the queue
RefreshInit ==
  /\ socks = <<NewSocket>>
  /\ isConnected = FALSE
  /\ pingInterval = NoTimer
  /\ pongTimeout = NoTimer
  /\ reconnectTimeout = NoTimer
  /\ tornDown = FALSE
  /\ queue = <<Msg("refresh_images", "none", {})>>
  /\ captured \in FeedLists
  /\ images \in LoadedLists
  /\ lastId = IF images = <<>> THEN 0 ELSE images[Len(images)].id
  /\ hasMore = TRUE
  /\ isFetchingMore = FALSE
  /\ imagesLoading = FALSE
  /\ imagesError = FALSE
  /\ inflight = <<>>
  /\ selectedImages = {}
  /\ isSelectMode = FALSE
  /\ isAuthenticated = TRUE
  /\ loading = FALSE
  /\ rendered = <<>>
  /\ hist = [last |-> "full", started |-> FALSE, applied |-> TRUE, blocked |-> FALSE]
  /\ ev = [name |-> "mount", sock |-> 1, frame |-> NoFrame, calls |-> <<>>, sent |-> FALSE,
           req |-> NoRequest, data |-> <<>>,
           pre |-> [cur |-> 0, rs |-> "NONE", reconnect |-> FALSE, pong |-> FALSE, queue |-> 0]]

RefreshSpec == RefreshInit /\ [][BatchNext]_vars

\* ------------------------------------------- the folders view: two consumers
\* `const { type } = webSocketMessage`: the type property of what AppContent
\* keeps in webSocketMessage; an Array has none
typeOf(w) == IF DOMAIN w \subseteq Nat THEN "undefined" ELSE w.type

\* the folder tree's effect on the webSocketMessage w its render saw:
\* fetchFolders() begins with setLoading(true)
FolderTreeEffect(w) ==
  loading' = IF typeOf(w) \in {"refresh_images", "image_deleted", "images_deleted"}
             THEN TRUE ELSE loading

\* the folders view has just been opened: the folder tree and the grid are
\* mounted, each fetching
FoldersInit ==
  /\ socks = <<NewSocket>>
  /\ isConnected = FALSE
  /\ pingInterval = NoTimer
  /\ pongTimeout = NoTimer
  /\ reconnectTimeout = NoTimer
  /\ tornDown = FALSE
  /\ queue = <<>>
  /\ images = <<>>
  /\ captured = <<>>
  /\ lastId = 0
  /\ hasMore = TRUE
  /\ isFetchingMore = FALSE
  /\ imagesLoading = TRUE
  /\ imagesError = FALSE
  /\ inflight = <<Request("initial", <<>>)>>
  /\ selectedImages = {}
  /\ isSelectMode = FALSE
  /\ isAuthenticated = TRUE
  /\ loading = TRUE
  /\ rendered = <<>>
  /\ hist = [last |-> "none", started |-> TRUE, applied |-> FALSE, blocked |-> FALSE]
  /\ ev = [name |-> "mount", sock |-> 1, frame |-> NoFrame, calls |-> <<>>, sent |-> FALSE,
           req |-> NoRequest, data |-> <<>>,
           pre |-> [cur |-> 0, rs |-> "NONE", reconnect |-> FALSE, pong |-> FALSE, queue |-> 0]]

\* fetchFolders ends, with the folders or with an error: finally setLoading(false)
fetchFoldersSettled ==
  /\ loading
  /\ loading' = FALSE
  /\ ev' = Ev("folders", 0)
  /\ UNCHANGED <<tvars, queue, images, captured, lastId, hasMore, isFetchingMore, imagesLoading,
                 imagesError, inflight, hist, isAuthenticated, rendered, svars>>

\* one commit of the folders view with events pending: the effect of the
\* folder tree, then the effect of the grid, both on the array of that render
FoldersViewCommit ==
  /\ FolderTreeEffect(queue)
  /\ ImageGridEffect(queue)
  /\ UNCHANGED rendered

FoldersNext ==
  \/ \E m \in WireMessages \ {Msg("pong", "none", {})} : PushDelivered(m)
  \/ FoldersViewCommit
  \/ fetchFoldersSettled
  \/ \E i \in 1..Len(inflight) : \E data \in Responses(inflight[i].limit) : FetchResolved(i, data)
  \/ \E i \in 1..Len(inflight) : FetchRejected(i)

FoldersSpec == FoldersInit /\ [][FoldersNext]_vars

\* ------------------------------------- the grid's render and effect, apart
\* the transport hands push event m to onMessage while up to MaxBatch events
\* may be pending
PushQueued(m) ==
  /\ Len(handleWebSocketMessage(queue, m)) <= MaxBatch
  /\ queue' = handleWebSocketMessage(queue, m)
  /\ ev' = Ev("push", 0)
  /\ UNCHANGED <<tvars, fvars, svars>>

\* the grid renders with the events pending; its effect is scheduled
GridRender ==
  /\ rendered = <<>>
  /\ queue # <<>>
  /\ rendered' = queue
  /\ ev' = Ev("render", 0)
  /\ UNCHANGED <<tvars, queue, images, captured, lastId, hasMore, isFetchingMore, imagesLoading,
                 imagesError, inflight, hist, isAuthenticated, loading, svars>>

\* the scheduled effect runs on the array of its render and then sets the
\* state to an empty array
GridEffectRuns ==
  /\ rendered # <<>>
  /\ ImageGridEffect(rendered)
  /\ rendered' = <<>>
  /\ UNCHANGED loading

BatchingNext ==
  \/ \E m \in WireMessages \ {Msg("pong", "none", {})} : PushQueued(m)
  \/ GridRender
  \/ GridEffectRuns
  \/ \E i \in 1..Len(inflight) : \E data \in Responses(inflight[i].limit) : FetchResolved(i, data)
  \/ \E i \in 1..Len(inflight) : FetchRejected(i)

BatchingSpec == Init /\ [][BatchingNext]_vars

\* ------------------------------------------------------------------ claims
LiveSockets == {s \in 1..Len(socks) : socks[s].rs \in {"CONNECTING", "OPEN"}}

CloseEvents == {"close", "errorclose"}

\* C1: connect() run by the reconnect timer or by a liveness signal while
\* ws.current is CONNECTING or OPEN creates no socket and changes no state
\* (the timer that fired apart), and at most one socket of the session is
\* CONNECTING or OPEN in every reachable state.
C1_ConnectIsNoOpWhenLive ==
  /\ [](Cardinality(LiveSockets) <= 1)
  /\ [][(ev'.name \in {"reconnect", "liveness"} /\ CurState(T) \in {"OPEN", "CONNECTING"})
          => /\ socks' = socks
             /\ isConnected' = isConnected
             /\ pingInterval' = pingInterval
             /\ pongTimeout' = pongTimeout
             /\ reconnectTimeout'.orphans <= reconnectTimeout.orphans
             /\ reconnectTimeout'.ref => reconnectTimeout.ref
             /\ queue' = queue]_vars

\* the reconnect timer fired while the current socket was CONNECTING or OPEN
C1_Witness ==
  /\ ev.name = "reconnect"
  /\ ev.pre.rs \in {"OPEN", "CONNECTING"}
  /\ Len(socks) = ev.pre.cur

\* C2: once the cleanup has run, the session makes no reconnection attempt: no
\* reconnect timer is armed and no socket of the session is CONNECTING or OPEN,
\* also after the close or error event of an earlier socket.
C2_NoReconnectAfterTeardown ==
  tornDown => (ArmedCount(reconnectTimeout) = 0 /\ LiveSockets = {})

\* C3: whenever ws.current is CLOSING or CLOSED and the session is not torn
\* down, ws.current is later CONNECTING again (or the session is torn down, or
\* the model's socket bound is reached); and a close event of ws.current shows
\* as isConnected false with the reconnect timer armed.
C3_ClosedLeadsToConnecting ==
  /\ (~tornDown /\ CurState(T) \in {"CLOSING", "CLOSED"})
       ~> (tornDown \/ CurState(T) = "CONNECTING" \/ Len(socks) = MaxSockets)
  /\ []((~tornDown /\ ev.name \in CloseEvents /\ ev.sock = ev.pre.cur)
          => (~isConnected /\ reconnectTimeout.ref))

\* the reconnect timer fired on a closed socket and a new socket is connecting
C3_Witness ==
  /\ ~tornDown
  /\ ev.name = "reconnect"
  /\ ev.pre.rs = "CLOSED"
  /\ Len(socks) = ev.pre.cur + 1
  /\ CurState(T) = "CONNECTING"

\* C4: while ws.current is OPEN a heartbeat interval is armed (a ping every
\* 20 s); a ping that is sent arms the 5 s watchdog; a pong clears it; the
\* watchdog's expiry closes the socket, and the close event arms the reconnect
\* timer.
C4_HeartbeatAndWatchdog ==
  /\ (~tornDown /\ CurState(T) = "OPEN")
       => (Armed(pingInterval) /\ pingInterval.delay = PING_INTERVAL_MS)
  /\ (ev.name = "ping" /\ ev.sent)
       => (pongTimeout.ref /\ pongTimeout.delay = PONG_TIMEOUT_MS)
  /\ (ev.name = "message" /\ ev.frame.text = "object" /\ ev.frame.obj.type = "pong")
       => ~Armed(pongTimeout)
  /\ ev.name = "watchdog" => socks[ev.sock].rs = "CLOSING"
  /\ (ev.name \in CloseEvents /\ socks[ev.sock].onclose) => reconnectTimeout.ref

\* C5: at most one reconnect timer is pending, always with the 3 s delay, and
\* a close event handled by ws.onclose leaves exactly one pending and starts
\* no connection attempt itself, also when one was pending already.
C5_OneReconnectPending ==
  /\ ArmedCount(reconnectTimeout) <= 1
  /\ Armed(reconnectTimeout) => reconnectTimeout.delay = RECONNECT_DELAY_MS
  /\ (ev.name \in CloseEvents /\ socks[ev.sock].onclose)
       => (reconnectTimeout.ref /\ ArmedCount(reconnectTimeout) = 1 /\ Len(socks) = ev.pre.cur)

\* a close event was handled while a reconnect was pending
C5_Witness ==
  /\ ev.name \in CloseEvents
  /\ socks[ev.sock].onclose
  /\ ev.pre.reconnect

\* C6: a liveness signal that finds ws.current CLOSING or CLOSED cancels the
\* pending reconnect timer and creates the new socket in the same step; one
\* that finds it CONNECTING or OPEN changes nothing.
C6_LivenessPreemptsDelay ==
  [][ev'.name = "liveness"
      => IF CurState(T) \in {"OPEN", "CONNECTING"}
         THEN UNCHANGED <<tvars, queue>>
         ELSE /\ ArmedCount(reconnectTimeout') = 0
              /\ Len(socks') = Len(socks) + 1
              /\ socks'[Len(socks')].rs = "CONNECTING"
              /\ Cardinality(LiveSockets') = 1]_vars

\* a liveness signal arrived while the socket was closed and a reconnect pending
C6_Witness ==
  /\ ev.name = "liveness"
  /\ ev.pre.rs = "CLOSED"
  /\ ev.pre.reconnect
  /\ Len(socks) = ev.pre.cur + 1

\* C7: after a socket event handler (open, close, error) has run on a session
\* that is not torn down, isConnected is true exactly when ws.current is OPEN.
C7_IsConnectedTracksSocket ==
  (~tornDown /\ ev.name \in ({"open"} \cup CloseEvents))
    => (isConnected <=> CurState(T) = "OPEN")

\* C8 as claimed: every frame that parses as JSON and is no pong is handed to
\* onMessage exactly once; a pong never is.
C8_EveryParsedFrameDelivered ==
  ev.name = "message" =>
    /\ (ev.frame.text = "object" /\ ev.frame.obj.type = "pong") => ev.calls = <<>>
    /\ (ev.frame.text # "garbage" /\ ~(ev.frame.text = "object" /\ ev.frame.obj.type = "pong"))
         => Len(ev.calls) = 1

\* C8 amended: every frame that parses to a JSON value other than null and is
\* no pong is handed to onMessage exactly once, as parsed; a pong and the frame
\* null never are.
C8_NonNullFrameDelivered ==
  ev.name = "message" =>
    /\ (ev.frame.text = "object" /\ ev.frame.obj.type = "pong") => ev.calls = <<>>
    /\ ev.frame.text = "null" => ev.calls = <<>>
    /\ (ev.frame.text = "object" /\ ev.frame.obj.type # "pong") => ev.calls = <<ev.frame.obj>>

\* a frame that is no pong was delivered
C8_Witness ==
  /\ ev.name = "message"
  /\ ev.frame.text = "object"
  /\ ev.frame.obj.type = "refresh_images"
  /\ ev.calls = <<ev.frame.obj>>
  /\ queue = <<ev.frame.obj>>

\* C9: a frame that does not parse changes nothing: sockets, isConnected, the
\* timers, the queue, the feed and the selection are what they were, and
\* onMessage is not called.
C9_MalformedFrameDropped ==
  [][(ev'.name = "message" /\ ev'.frame.text = "garbage")
      => (UNCHANGED <<tvars, queue, fvars, svars>> /\ ev'.calls = <<>>)]_vars

\* a frame that does not parse arrived while the watchdog was armed and an
\* event was waiting in the queue
C9_Witness ==
  /\ ev.name = "message"
  /\ ev.frame.text = "garbage"
  /\ pongTimeout.ref
  /\ queue # <<>>

NoDuplicateIds(s) == \A j, k \in 1..Len(s) : s[j].id = s[k].id => j = k

\* C10: the feed cache never holds two items with the same id, after any
\* interleaving of the initial load, next-page fetches whose pages overlap,
\* refreshes and removals, every response having unique ids.
C10_NoDuplicateIds == NoDuplicateIds(images)

\* a next page that overlaps the cache was appended without its duplicates
C10_Witness ==
  /\ ev.name = "more"
  /\ Len(images) >= 2
  /\ lastId \in {images[k].id : k \in 1..(Len(images) - 1)}

\* the next-page requests awaiting their response
PendingMore == {i \in 1..Len(inflight) : inflight[i].kind = "more"}

\* C11: at most one next-page request is outstanding at any time, also when a
\* next page is asked for after a concurrent refresh completed while the page
\* request is still pending; and the cache holds no id twice.
C11_OneFetchMoreOutstanding ==
  /\ Cardinality(PendingMore) <= 1
  /\ NoDuplicateIds(images)

C13_PageFailureKeepsItems ==
  [][(ev'.name = "rejected" /\ ev'.req.kind = "more")
      => /\ imagesError'
         /\ ~hasMore'
         /\ ~isFetchingMore'
         /\ images' = images
         /\ lastId' = lastId]_vars

\* a next-page request failed on a cache that holds items
C13_Witness ==
  /\ ev.name = "rejected"
  /\ ev.req.kind = "more"
  /\ images # <<>>
  /\ lastId # 0
  /\ imagesError

FirstPlace(s, x) == CHOOSE k \in 1..Len(s) : s[k].id = x /\ \A j \in 1..(k - 1) : s[j].id # x

\* C15: Reconcile(fresh, cached) holds no item whose id is absent from fresh.
C15_ReconcileOnlyFreshIds ==
  ev.name = "reconcile" => \A k \in 1..Len(images) : images[k].id \in IdsOf(ev.data)

\* the cached list held an id that fresh lacks, and the result is not empty
C15_Witness ==
  /\ ev.name = "reconcile"
  /\ images # <<>>
  /\ \E k \in 1..Len(ev.req.cached) : ev.req.cached[k].id \notin IdsOf(ev.data)

\* C16: Reconcile(fresh, cached) lists every id of fresh once, in the order in
\* which the ids first appear when fresh and then cached are scanned.
C16_ReconcileKeepsFreshOrder ==
  ev.name = "reconcile" =>
    LET scan == ev.data \o ev.req.cached
    IN /\ NoDuplicateIds(images)
       /\ IdsOf(images) = IdsOf(ev.data)
       /\ \A j, k \in 1..Len(images) :
            j < k => FirstPlace(scan, images[j].id) < FirstPlace(scan, images[k].id)

\* fresh and cached hold the same two ids in opposite orders
C16_Witness ==
  /\ ev.name = "reconcile"
  /\ Len(ev.data) = 2 /\ Len(ev.req.cached) = 2 /\ Len(images) = 2
  /\ ev.data[1].id = ev.req.cached[2].id
  /\ ev.data[2].id = ev.req.cached[1].id
  /\ images[1].id = ev.data[1].id

\* C17: for every id present in both fresh and cached, the item in
\* Reconcile(fresh, cached) is the copy from fresh.
C17_ReconcileFreshCopyWins ==
  ev.name = "reconcile" =>
    \A k \in 1..Len(images) : \E j \in 1..Len(ev.data) : images[k] = ev.data[j]

\* C18: a failed refresh leaves the cache as it was and sets the error; a
\* refresh that succeeds commits the whole reconciliation (every id of the
\* response once, in the response's order, and no other id), never a part of it.
C18_RefreshIsAtomic ==
  [][/\ (ev'.name = "rejected" /\ ev'.req.kind = "refresh") =>
          images' = images /\ imagesError'
     /\ ev'.name = "refresh" =>
          /\ NoDuplicateIds(images')
          /\ IdsOf(images') = IdsOf(ev'.data)
          /\ \A j, k \in 1..Len(images') :
               j < k => FirstPlace(ev'.data, images'[j].id) < FirstPlace(ev'.data, images'[k].id)]_vars

\* a refresh failed while the cache held items
C18_Witness ==
  /\ ev.name = "rejected"
  /\ ev.req.kind = "refresh"
  /\ images # <<>>
  /\ imagesError

\* C19: a page response that resolves after a refresh which was started while
\* the page request was pending appends nothing and leaves the cursor and
\* hasMore as the refresh set them.
C19_OvertakenPageDiscarded ==
  [][(ev'.name = "more" /\ ev'.req.stale) =>
        images' = images /\ lastId' = lastId /\ hasMore' = hasMore]_vars

\* C20: the request issued by a query change carries no cursor, and once its
\* response is applied no response to a request of an earlier query changes
\* the cache or the cursor.
C20_QueryChangeRestarts ==
  [][/\ ev'.name = "query" =>
          /\ inflight'[Len(inflight')].kind = "initial"
          /\ inflight'[Len(inflight')].cursor = 0
     /\ (ev'.name \in {"initial", "more", "refresh"} /\ ev'.req.old /\ hist.applied) =>
          images' = images /\ lastId' = lastId /\ hasMore' = hasMore]_vars

\* C21: after sign-out no late response or failure of a fetch that was in
\* flight changes the feed: the cache stays empty, hasMore stays false and the
\* error is not set.
C21_LateResolutionsIgnored ==
  [][(~isAuthenticated /\ ev'.name \in {"initial", "more", "refresh", "rejected"}) =>
        images' = <<>> /\ ~hasMore' /\ imagesError' = imagesError]_vars

\* C22: a removal event for the id set S, delivered once or several times to a
\* cache with items I, leaves exactly the items of I whose id is not in S, in
\* their order; ids of S that the cache lacks have no effect.
C22_RemovalIdempotent ==
  ev.name = "removal" =>
    LET S == ev.calls[1].ids
        rest == {k \in 1..Len(captured) : captured[k].id \notin S}
        place(n) == CHOOSE k \in rest : Cardinality({j \in rest : j <= k}) = n
    IN images = [n \in 1..Cardinality(rest) |-> captured[place(n)]]

\* the event was delivered twice, named an id the cache never held, and
\* removed some items but not all
C22_Witness ==
  /\ ev.name = "removal"
  /\ Len(ev.calls) = 2
  /\ images # <<>>
  /\ Len(images) < Len(captured)
  /\ \E i \in ev.calls[1].ids : i \notin IdsOf(captured)

\* the removal events among the push events of batch b
Removals(b) == {k \in 1..Len(b) : b[k].type \in {"image_deleted", "images_deleted"}}

\* a refresh is among the push events of batch b
HasRefresh(b) == \E k \in 1..Len(b) : b[k].type = "refresh_images"

\* list without the items whose id is in S
Without(list, S) ==
  LET kept(img) == img.id \notin S
  IN SelectSeq(list, kept)

\* C23: a batch that holds a refresh does not change the cache by a removal
\* step of its own; the cache changes only when the refresh resolves.
C23_RefreshSubsumesRemovals ==
  [][(ev'.name = "batch" /\ HasRefresh(queue)) => images' = images]_vars

\* C24: a batch of removal events only is applied to the cache directly, and
\* no fetch is issued for it.
C24_RemovalsOnlyNoFetch ==
  [][(ev'.name = "batch" /\ ~HasRefresh(queue) /\ Removals(queue) # {}) =>
        /\ images' = Without(images, UNION {queue[k].ids : k \in Removals(queue)})
        /\ inflight' = inflight]_vars

\* a batch of removal events only was processed: items went, no fetch started
C24_Witness ==
  /\ ev.name = "batch"
  /\ ~HasRefresh(ev.calls)
  /\ Removals(ev.calls) # {}
  /\ Len(images) < Len(captured)
  /\ inflight = <<>>

\* push event m is a refresh that names one item
Targeted(m) == m.type = "refresh_images" /\ m.ids # {}

\* C25: a batch whose only events are refreshes that name one item issues no
\* fetch and leaves the list of ids in the cache as it was.
C25_TargetedRefreshNoFetch ==
  [][(ev'.name = "batch" /\ \A k \in 1..Len(queue) : Targeted(queue[k])) =>
        /\ inflight' = inflight
        /\ [k \in 1..Len(images') |-> images'[k].id] = [k \in 1..Len(images) |-> images[k].id]]_vars

\* list after the removal events of batch b, applied one by one as they arrived
RECURSIVE ApplyInOrder(_, _)
ApplyInOrder(list, b) ==
  IF b = <<>> THEN list
  ELSE ApplyInOrder(IF Head(b).type \in {"image_deleted", "images_deleted"}
                    THEN Without(list, Head(b).ids) ELSE list, Tail(b))

\* C26: the grid applies the removal events of a batch in arrival order, and a
\* refresh of the batch, wherever it arrived, last: when the batch has been
\* processed every removal is applied and the refresh is still to resolve.
C26_RefreshAppliedLast ==
  [][ev'.name = "batch" =>
        /\ images' = ApplyInOrder(images, queue)
        /\ HasRefresh(queue) =>
             /\ Len(inflight') = Len(inflight) + 1
             /\ inflight'[Len(inflight')].kind = "refresh"
             /\ SubSeq(inflight', 1, Len(inflight)) = inflight]_vars

\* a refresh arrived before a removal event in one batch: the removal is
\* applied and the refresh is pending
C26_Witness ==
  /\ ev.name = "batch"
  /\ Len(ev.calls) = 2
  /\ ev.calls[1].type = "refresh_images"
  /\ ev.calls[2].type \in {"image_deleted", "images_deleted"}
  /\ Len(images) < Len(captured)
  /\ Len(inflight) = 1
  /\ inflight[1].kind = "refresh"

C28_NoAutoExitBeforeSelection ==
  [][(isSelectMode /\ selectedImages = {} /\ ~isSelectMode') =>
        \/ ev'.name = "toggle"
        \/ ev'.name = "batch" /\ hasBulkTagUpdate(queue)]_vars

IdList(list) == [k \in 1..Len(list) |-> list[k].id]

\* a refresh resolved with the ids the cache holds, in the same order: the
\* cache and the selection stay as they were, and reconciling the same
\* response with the new cache changes nothing
UnchangedRefreshIsNoOp ==
  (ev'.name = "refresh" /\ IdList(ev'.data) = IdList(images)) =>
     /\ images' = images
     /\ selectedImages' = selectedImages
     /\ isSelectMode' = isSelectMode
     /\ Reconcile(ev'.data, images') = images'

C31_NoContinuationAfterPageFailure ==
  [][ev'.name = "fetchMore" => ~hist.blocked]_vars

\* C32: the request of a refresh carries no cursor and a limit of at least the
\* number of items the cache holds when it is issued, and at least a page.
C32_RefreshCoversCache ==
  [][(ev'.name = "batch" /\ HasRefresh(queue)) =>
        LET r == inflight'[Len(inflight')]
        IN /\ r.kind = "refresh"
           /\ r.cursor = 0
           /\ r.limit >= PageSize
           /\ r.limit >= Len(images')]_vars

\* C33: in the folders view every event the transport delivered is handled by
\* the grid and by the folder tree in the commit that follows, and a refresh
\* or a deletion among them makes the folder tree fetch the folders again.
C33_BothConsumersProcess ==
  [][ev'.name = "batch" =>
       /\ ev'.calls = queue
       /\ (\E k \in 1..Len(queue) : queue[k].type \in {"refresh_images", "images_deleted"})
            => loading']_vars

\* C34: when the grid's effect empties the queue, every event that was pending
\* at that moment is in the batch the effect processed: none is discarded
\* unprocessed.
C34_ClearDiscardsNothing ==
  [][ev'.name = "batch" => ev'.calls = queue]_vars

\* C35: the close or error event of a socket that a later connection attempt
\* replaced, arriving while the current socket is CONNECTING or OPEN, leaves
\* the current socket in its state, leaves its heartbeat armed as it was and
\* arms no reconnect timer.
C35_SupersededSocketIsInert ==
  [][(/\ ev'.name \in CloseEvents
      /\ ev'.sock < Len(socks)
      /\ socks[Len(socks)].rs \in {"CONNECTING", "OPEN"})
     => /\ socks'[Len(socks)].rs = socks[Len(socks)].rs
        /\ pingInterval' = pingInterval
        /\ ArmedCount(reconnectTimeout') <= ArmedCount(reconnectTimeout)]_vars

\* C36: at most one heartbeat interval and at most one watchdog timer are
\* armed; a heartbeat interval is armed while ws.current is OPEN; none is
\* armed once the session is torn down or the close event of the current
\* socket has been handled.
C36_OneHeartbeatOneWatchdog ==
  /\ ArmedCount(pingInterval) <= 1
  /\ ArmedCount(pongTimeout) <= 1
  /\ (~tornDown /\ CurState(T) = "OPEN") => ArmedCount(pingInterval) = 1
  /\ tornDown => ~Armed(pingInterval)
  /\ (ev.name \in CloseEvents /\ ev.sock = Len(socks) /\ socks[ev.sock].onclose)
       => ~Armed(pingInterval)

\* C37: once the effects have settled, a selection that holds an id implies
\* that selection mode is active: leaving the mode empties the selection, and
\* ids enter the selection only in the mode.
C37_SelectionOnlyInMode ==
  ~isSelectMode => selectedImages = {}

\* the mode was left by the navbar button while items were loaded
C37_Witness ==
  /\ ev.name = "toggle"
  /\ ~isSelectMode
  /\ images # <<>>
  /\ selectedImages = {}

\* the operations that always replace the selection by a new set (a range
\* selection does so only when it finds the focused item, and then adds ids)
SelectionSetters == {"select", "click", "selectAll", "clearSelection", "removed"}

\* C38: a step that leaves the selection empty while selection mode was
\* active, where it held ids or by an operation that sets the selection
\* anew, ends the mode; the navbar button entering the
\* mode with an empty selection leaves it active, and it stays active as long
\* as no operation sets the selection (the button and a bulk tag update apart).
C38_AutoExitOnEmptied ==
  [][/\ (/\ isSelectMode /\ selectedImages' = {}
         /\ selectedImages # {} \/ ev'.name \in SelectionSetters)
        => ~isSelectMode'
     /\ (ev'.name = "toggle" /\ ~isSelectMode) => (isSelectMode' /\ selectedImages' = {})
     /\ (/\ isSelectMode /\ selectedImages = {}
         /\ ev'.name \notin SelectionSetters \cup {"toggle"}
         /\ ~(ev'.name = "batch" /\ hasBulkTagUpdate(queue)))
        => isSelectMode']_vars

\* the last selected id was clicked again, or Deselect All was pressed, and
\* the mode ended
C38_Witness ==
  /\ ev.name \in {"click", "clearSelection"}
  /\ selectedImages = {}
  /\ ~isSelectMode

\* the batch b holds a refresh_images event whose reason is tags_updated_bulk
BulkTagUpdateIn(b) ==
  \E k \in 1..Len(b) : b[k].type = "refresh_images" /\ b[k].reason = "tags_updated_bulk"

\* C39: processing a batch that holds a bulk tag update leaves selection mode
\* inactive and the selection empty, whatever else the batch holds; processing
\* any other batch leaves the selection as it was but for the ids the batch
\* removed from the cache, and ends the mode only when that emptied a
\* selection that held ids.
C39_BulkTagUpdateEndsSelection ==
  [][ev'.name = "batch" =>
       IF BulkTagUpdateIn(queue)
       THEN ~isSelectMode' /\ selectedImages' = {}
       ELSE /\ selectedImages' = IF images' # images THEN selectedImages \cap IdsOf(images')
                                 ELSE selectedImages
            /\ isSelectMode' = (isSelectMode /\ ~(selectedImages # {} /\ selectedImages' = {}))]_vars

\* a batch with a bulk tag update and a removal was processed: the removal
\* took an item of a feed that stays non-empty, and the selection is over
C39_Witness ==
  /\ ev.name = "batch"
  /\ BulkTagUpdateIn(ev.calls)
  /\ \E k \in 1..Len(ev.calls) : ev.calls[k].type = "images_deleted"
  /\ images # <<>>
  /\ Len(images) < Len(captured)
  /\ selectedImages = {}
  /\ ~isSelectMode

\* the handlers that end a fetch
Completions == {"initial", "refresh", "more", "rejected"}

\* C40: when a fetch has ended, with a response or with an error, neither
\* imagesLoading nor isFetchingMore is set, and a request for the next page is
\* accepted if hasMore is true (and the user is signed in); and a flag that is
\* set is cleared in the end.
C40_FlagsClearedPaginationResumes ==
  /\ [](ev.name \in Completions =>
          /\ ~imagesLoading
          /\ ~isFetchingMore
          /\ (hasMore /\ isAuthenticated /\ Len(inflight) < MaxInFlight) => ENABLED FetchMore)
  /\ ((imagesLoading \/ isFetchingMore) ~> (~imagesLoading /\ ~isFetchingMore))

\* a next page was requested after the last fetch to end had failed
C40_Witness ==
  /\ ev.name = "fetchMore"
  /\ hist.last = "failed"
  /\ isFetchingMore
  /\ inflight # <<>>

====
